---- MODULE Spec2Model ----
(***************************************************************************)
(* Model of the asynchronous decode / caching subsystem of King Viewer     *)
(* (src/Code/viewer.py): ImageCache, the loader / thumbnail / scan worker  *)
(* threads, and the MainWindow handlers that run on the control thread.    *)
(*                                                                         *)
(* A path is a positive integer; the integer order is the lexicographic    *)
(* order of the absolute paths.  A decoded image is identified by the path *)
(* it was decoded from.  Every MainWindow handler runs to completion on    *)
(* the control thread, so each handler is one action.  A worker's queued   *)
(* signal is delivered at the step that handles it; signals of one worker  *)
(* are handled in the order it emitted them.                               *)
(***************************************************************************)
EXTENDS Integers, Sequences, FiniteSets, TLC

\* ------------------------------------------------------------------ bounds
NumPaths == 3
NumItems == 2
MaxCapacity == 3
\* Spec: one folder, navigation and decoding
MaxRequestId == 3
MaxScanToken == 1
MaxThumbPos == 1
\* ScanSpec: two folder scans
ScanMaxRequestId == 2
ScanMaxScanToken == 2
ScanMaxThumbPos == 1
\* NavSpec: one folder of NumPaths files, longer navigation
NavMaxRequestId == 4
NavMaxScanToken == 1
NavMaxThumbPos == 1
\* LiveSpec: the worker threads are scheduled fairly
LiveMaxRequestId == 2
LiveMaxScanToken == 1
LiveMaxThumbPos == 1
\* ThumbSpec: a thumbnail thread followed through its whole list
ThumbMaxRequestId == 2
ThumbMaxScanToken == 1
ThumbMaxThumbPos == 3
\* SceneSpec: one folder of decodable files, a cache that holds all or not
SceneMaxRequestId == 4
SceneMaxScanToken == 1
SceneMaxThumbPos == 1
\* EvictSpec: two folder scans and a cache smaller than a folder
EvictMaxRequestId == 2
EvictMaxScanToken == 2
EvictMaxThumbPos == 1
EvictMaxCapacity == 2
\* PreloadSpec: one folder of NumPaths + 1 decodable files
PreloadMaxRequestId == 4
PreloadMaxScanToken == 1
PreloadMaxThumbPos == 1
\* FolderScanSpec: the tokens a scan thread is given
MaxScanTokenRun == 2
\* MainWindow.__init__: ImageCache(capacity=15)
DefaultCapacity == 15

Paths == 1..NumPaths
NoPath == 0
NoItem == 0
NoRequest == 0

\* What a specification explores: user commands are taken while the request
\* id is below requests, scans are started while the scan token is below
\* scans, a thumbnail thread is followed through its first thumbs files, and
\* the window is built with a cache capacity of caps; a scanned folder holds
\* one of listings, open_file is given one of selected, and decode_image
\* succeeds (TRUE) or raises (FALSE) as decodes allows.
SpecBounds ==
  [requests |-> MaxRequestId, scans |-> MaxScanToken, thumbs |-> MaxThumbPos,
   caps |-> {DefaultCapacity}, listings |-> SUBSET Paths,
   selected |-> Paths \cup {NoPath}, decodes |-> BOOLEAN]

\* a folder that holds every path or only the first, every file decodable
NavBounds ==
  [requests |-> NavMaxRequestId, scans |-> NavMaxScanToken,
   thumbs |-> NavMaxThumbPos, caps |-> {DefaultCapacity},
   listings |-> {Paths, {1}}, selected |-> Paths \cup {NoPath},
   decodes |-> {TRUE}]

\* two folders, 1..NumPaths-1 and {NumPaths}, and an unreadable one
ScanBounds ==
  [requests |-> ScanMaxRequestId, scans |-> ScanMaxScanToken,
   thumbs |-> ScanMaxThumbPos, caps |-> {DefaultCapacity},
   listings |-> {{}, 1..(NumPaths - 1), {NumPaths}},
   selected |-> {NoPath, NumPaths - 1}, decodes |-> BOOLEAN]

\* a folder that holds every path or only the first, opened as a folder
LiveBounds ==
  [requests |-> LiveMaxRequestId, scans |-> LiveMaxScanToken,
   thumbs |-> LiveMaxThumbPos, caps |-> {DefaultCapacity},
   listings |-> {Paths, {1}}, selected |-> {NoPath}, decodes |-> BOOLEAN]

\* a folder that holds every path or only the first, opened as a folder
ThumbBounds ==
  [requests |-> ThumbMaxRequestId, scans |-> ThumbMaxScanToken,
   thumbs |-> ThumbMaxThumbPos, caps |-> {DefaultCapacity},
   listings |-> {Paths, {1}}, selected |-> {NoPath}, decodes |-> BOOLEAN]

\* a folder that holds every path or only the first, opened as a folder, every
\* file decodable, and a cache of as many entries as there are paths, or one
\* entry less
SceneBounds ==
  [requests |-> SceneMaxRequestId, scans |-> SceneMaxScanToken,
   thumbs |-> SceneMaxThumbPos, caps |-> {NumPaths - 1, NumPaths},
   listings |-> {Paths, {1}}, selected |-> {NoPath}, decodes |-> {TRUE}]

\* MainWindow._preload_neighbors: for off in (-1, 1)
NeighbourOffsets == {-1, 1}

\* a folder of one file more than a cache of the current file and its
\* neighbours holds, or of the first file only, opened as a folder, every file
\* decodable
PreloadBounds ==
  [requests |-> PreloadMaxRequestId, scans |-> PreloadMaxScanToken,
   thumbs |-> PreloadMaxThumbPos,
   caps |-> {Cardinality(NeighbourOffsets) + 1, DefaultCapacity},
   listings |-> {1..(NumPaths + 1), {1}}, selected |-> {NoPath},
   decodes |-> {TRUE}]

\* the folders of ScanBounds, opened as folders, with a cache of one entry up
\* to EvictMaxCapacity entries
EvictBounds ==
  [requests |-> EvictMaxRequestId, scans |-> EvictMaxScanToken,
   thumbs |-> EvictMaxThumbPos, caps |-> 1..EvictMaxCapacity,
   listings |-> ScanBounds.listings, selected |-> {NoPath},
   decodes |-> BOOLEAN]

VARIABLES
  image_files,     \* MainWindow.image_files: sequence of paths
  current_index,   \* MainWindow.current_index, 0-based, -1 = nothing loaded
  capacity,        \* ImageCache.capacity
  items,           \* ImageCache._items: sequence of [key, item], oldest first
  display,         \* what the ImageViewer shows: [kind, path]
  thumb_preview,   \* MainWindow._thumb_preview: the paths that have a preview
  thumb_index,     \* MainWindow._thumb_index: path -> row
  thumb_icons,     \* icon of every row of thumbnail_list (NoPath = placeholder)
  thumb_row,       \* thumbnail_list.currentRow()
  inflight_loads,  \* MainWindow._inflight_loads
  loaders,         \* MainWindow._loaders: sequence of ImageLoaderThread
  request_id,      \* MainWindow._request_id
  scan_token,      \* MainWindow._scan_token
  thumb_token,     \* MainWindow._thumb_token
  scan_threads,    \* FolderScanThreads whose scanned signal is not yet handled
  thumb_threads,   \* ThumbnailLoaderThreads still iterating
  thumb_events,    \* thumbnail_ready signals queued for the control thread
  last,            \* history: the handler that ran last, its inputs, its calls
  recency,         \* history: cache keys in the order of their last touch
  nav              \* history: the run of consecutive next_image calls

vars == <<image_files, current_index, capacity, items, display, thumb_preview,
          thumb_index, thumb_icons, thumb_row, inflight_loads, loaders,
          request_id, scan_token, thumb_token, scan_threads, thumb_threads,
          thumb_events, last, recency, nav>>

\* ------------------------------------------------------------- sequences
Max(a, b) == IF a >= b THEN a ELSE b
Min(a, b) == IF a <= b THEN a ELSE b

Range(s) == {s[i] : i \in 1..Len(s)}

\* list.pop(i) for a 0-based i: the list without that element
RemoveAt(s, i) == [j \in 1..(Len(s) - 1) |-> IF j <= i THEN s[j] ELSE s[j + 1]]

Without(s, x) == SelectSeq(s, LAMBDA y : y # x)

\* position (1-based) of x in s, 0 when absent
RECURSIVE IndexFrom(_, _, _)
IndexFrom(s, x, i) ==
  IF i > Len(s) THEN 0
  ELSE IF s[i] = x THEN i
  ELSE IndexFrom(s, x, i + 1)

PosOf(s, x) == IndexFrom(s, x, 1)

\* list.sort() of a set of paths
RECURSIVE SortedSeq(_)
SortedSeq(S) ==
  IF S = {} THEN <<>>
  ELSE LET m == CHOOSE x \in S : \A y \in S : x <= y
       IN <<m>> \o SortedSeq(S \ {m})

\* ------------------------------------------------------------ ImageCache
Keys(its) == {its[i].key : i \in 1..Len(its)}

ItemOf(its, path) ==
  IF path \in Keys(its)
  THEN (CHOOSE e \in Range(its) : e.key = path).item
  ELSE NoItem

DropKey(its, path) == SelectSeq(its, LAMBDA e : e.key # path)

\* ImageCache.__init__
ImageCacheInit(cap) == Max(1, cap)

get_nopromote(its, path) == [items |-> its, ret |-> ItemOf(its, path)]

\* ImageCache.get: pop the entry and re-insert it at the recent end
get(its, path) ==
  LET item == ItemOf(its, path)
  IN IF item = NoItem
     THEN [items |-> its, ret |-> NoItem]
     ELSE [items |-> Append(DropKey(its, path), [key |-> path, item |-> item]),
           ret |-> item]

evict_newest(its, cap) ==
  IF Len(its) > cap THEN SubSeq(its, 1, cap) ELSE its

\* the while loop of ImageCache.put: popitem(last=False)
RECURSIVE evict(_, _)
evict(its, cap) ==
  IF Len(its) > cap THEN evict(Tail(its), cap) ELSE its

put_offbyone(its, cap, path, item) ==
  evict(Append(DropKey(its, path), [key |-> path, item |-> item]), cap + 1)

put_inplace(its, cap, path, item) ==
  IF path \in Keys(its)
  THEN [i \in 1..Len(its) |->
          IF its[i].key = path THEN [key |-> path, item |-> item] ELSE its[i]]
  ELSE evict(Append(its, [key |-> path, item |-> item]), cap)

\* ImageCache.put
put(its, cap, path, item) ==
  evict(Append(DropKey(its, path), [key |-> path, item |-> item]), cap)

\* ------------------------------------------------- control-thread state
\* The fields of MainWindow (and of the widgets it owns) that the handlers
\* read and write, as one record, so that a handler calling other methods is
\* a composition of operators.  calls is the history of the load_current and
\* _request_load calls made by the handler that is running.
Main ==
  [image_files |-> image_files, current_index |-> current_index,
   capacity |-> capacity, items |-> items, display |-> display,
   thumb_preview |-> thumb_preview, thumb_index |-> thumb_index,
   thumb_icons |-> thumb_icons, thumb_row |-> thumb_row,
   inflight_loads |-> inflight_loads, loaders |-> loaders,
   request_id |-> request_id, scan_token |-> scan_token,
   thumb_token |-> thumb_token, thumb_threads |-> thumb_threads,
   calls |-> <<>>]

NoDisplay == [kind |-> "none", path |-> NoPath]

\* the decoded image of a path
Decoded(path) == path

\* ImageViewer.clear_view
clear_view(s) == [s EXCEPT !.display = NoDisplay]

\* MainWindow._display: viewer.set_image(cached.qimage) with info and meta
display_cached(s, path, cached) ==
  [s EXCEPT !.display = [kind |-> "full", path |-> path]]

\* load_current's provisional display of a preview
display_preview(s, path) ==
  [s EXCEPT !.display = [kind |-> "preview", path |-> path]]

\* the path at current_index as _on_loaded computes it
cur_path(s) ==
  IF Len(s.image_files) > 0 /\ s.current_index >= 0
  THEN s.image_files[s.current_index + 1]
  ELSE NoPath

\* {path: idx for idx, path in enumerate(image_files)}
IndexMap(files) == [p \in Range(files) |-> PosOf(files, p) - 1]

\* MainWindow._sync_thumb_selection
sync_thumb_selection(s) ==
  IF 0 <= s.current_index /\ s.current_index < Len(s.thumb_icons)
  THEN [s EXCEPT !.thumb_row = s.current_index]
  ELSE s

\* MainWindow._populate_thumbnails
populate_thumbnails(s) ==
  LET n == Len(s.image_files)
  IN [s EXCEPT !.thumb_icons = [i \in 1..n |-> NoPath],
               !.thumb_index = IndexMap(s.image_files),
               !.thumb_row = IF 0 <= s.current_index /\ s.current_index < n
                             THEN s.current_index ELSE -1]

start_thumbnail_loader_sametoken(s) ==
  LET token == Max(1, s.thumb_token)
  IN [s EXCEPT !.thumb_token = token,
               !.thumb_threads = @ \cup {[token |-> token,
                                          files |-> s.image_files,
                                          started |-> s.image_files,
                                          pos |-> 0]}]

\* MainWindow._start_thumbnail_loader: the thread keeps a reference to the
\* image_files list itself, held here as files; started is the history of
\* what that list held when the thread was created
start_thumbnail_loader(s) ==
  LET token == s.thumb_token + 1
  IN [s EXCEPT !.thumb_token = token,
               !.thumb_threads = @ \cup {[token |-> token,
                                          files |-> s.image_files,
                                          started |-> s.image_files,
                                          pos |-> 0]}]

CallEntry(fn, path, role, ret, dup) ==
  [fn |-> fn, path |-> path, role |-> role, ret |-> ret, dup |-> dup]

request_load_nodedup(s, path, role) ==
  LET req == s.request_id + 1
  IN [s EXCEPT !.request_id = req,
               !.inflight_loads = @ \cup {path},
               !.loaders = Append(@, [request_id |-> req, path |-> path,
                                      role |-> role, emitted |-> FALSE]),
               !.calls = Append(@, CallEntry("_request_load", path, role, req,
                                             path \in s.inflight_loads))]

request_load_sameid(s, path, role) ==
  IF path \in s.inflight_loads
  THEN [s EXCEPT !.calls = Append(@, CallEntry("_request_load", path, role,
                                               NoRequest, TRUE))]
  ELSE LET req == Max(1, s.request_id)
       IN [s EXCEPT !.request_id = req,
                    !.inflight_loads = @ \cup {path},
                    !.loaders = Append(@, [request_id |-> req, path |-> path,
                                           role |-> role, emitted |-> FALSE]),
                    !.calls = Append(@, CallEntry("_request_load", path, role,
                                                  req, FALSE))]

\* MainWindow._request_load; the return value is the ret of the call entry
request_load(s, path, role) ==
  IF path \in s.inflight_loads
  THEN [s EXCEPT !.calls = Append(@, CallEntry("_request_load", path, role,
                                               NoRequest, TRUE))]
  ELSE LET req == s.request_id + 1
       IN [s EXCEPT !.request_id = req,
                    !.inflight_loads = @ \cup {path},
                    !.loaders = Append(@, [request_id |-> req, path |-> path,
                                           role |-> role, emitted |-> FALSE]),
                    !.calls = Append(@, CallEntry("_request_load", path, role,
                                                  req, FALSE))]

\* one iteration of the loop of _preload_neighbors
preload_one(s, off) ==
  LET idx == s.current_index + off
  IN IF 0 <= idx /\ idx < Len(s.image_files)
     THEN LET path == s.image_files[idx + 1]
              g == get(s.items, path)
              s1 == [s EXCEPT !.items = g.items]
          IN IF g.ret = NoItem THEN request_load(s1, path, "preload") ELSE s1
     ELSE s

preload_neighbors_nextonly(s) ==
  IF Len(s.image_files) = 0 THEN s
  ELSE preload_one(s, 1)

\* MainWindow._preload_neighbors
preload_neighbors(s) ==
  IF Len(s.image_files) = 0 THEN s
  ELSE preload_one(preload_one(s, -1), 1)

\* MainWindow.load_current
load_current(s) ==
  IF ~(0 <= s.current_index /\ s.current_index < Len(s.image_files))
  THEN s
  ELSE LET path == s.image_files[s.current_index + 1]
           g == get(s.items, path)
           s0 == [s EXCEPT !.items = g.items,
                           !.calls = Append(@, CallEntry("load_current", path,
                                                         "", NoRequest, FALSE))]
           s1 == IF g.ret # NoItem
                 THEN display_cached(s0, path, g.ret)
                 ELSE request_load(
                        IF path \in s0.thumb_preview
                        THEN display_preview(s0, path) ELSE s0,
                        path, "main")
       IN preload_neighbors(sync_thumb_selection(s1))

skip_corrupted_noclamp(s) ==
  IF Len(s.image_files) = 0 THEN clear_view(s)
  ELSE IF Len(s.image_files) = 1 THEN clear_view(s)
  ELSE LET files == RemoveAt(s.image_files, s.current_index)
           s1 == [s EXCEPT
                    !.image_files = files,
                    !.thumb_threads =
                       {IF t.token = s.thumb_token
                        THEN [t EXCEPT !.files = files] ELSE t : t \in @}]
       IN load_current(populate_thumbnails(s1))

skip_corrupted_popsingle(s) ==
  IF Len(s.image_files) = 0 THEN clear_view(s)
  ELSE LET files == RemoveAt(s.image_files, s.current_index)
           s1 == [s EXCEPT
                    !.image_files = files,
                    !.thumb_threads =
                       {IF t.token = s.thumb_token
                        THEN [t EXCEPT !.files = files] ELSE t : t \in @},
                    !.current_index = IF s.current_index >= Len(files)
                                      THEN Len(files) - 1 ELSE @]
       IN IF Len(files) = 0 THEN clear_view(populate_thumbnails(s1))
          ELSE load_current(populate_thumbnails(s1))

\* MainWindow._skip_corrupted_current.  image_files.pop mutates the list in
\* place, and the thumbnail thread started last iterates over that same list.
skip_corrupted_current(s) ==
  IF Len(s.image_files) = 0 THEN clear_view(s)
  ELSE IF Len(s.image_files) = 1 THEN clear_view(s)
  ELSE LET files == RemoveAt(s.image_files, s.current_index)
           s1 == [s EXCEPT
                    !.image_files = files,
                    !.thumb_threads =
                       {IF t.token = s.thumb_token
                        THEN [t EXCEPT !.files = files] ELSE t : t \in @},
                    !.current_index = IF s.current_index >= Len(files)
                                      THEN Len(files) - 1 ELSE @]
       IN load_current(populate_thumbnails(s1))

on_loaded_nocheck(s, req, path, ok, role) ==
  IF ~ok
  THEN IF path = cur_path(s) THEN skip_corrupted_current(s) ELSE s
  ELSE display_cached(
         [s EXCEPT !.items = put(@, s.capacity, path, Decoded(path))],
         path, Decoded(path))

on_loaded_skipany(s, req, path, ok, role) ==
  IF ~ok
  THEN IF cur_path(s) # NoPath THEN skip_corrupted_current(s) ELSE s
  ELSE LET s1 == [s EXCEPT !.items = put(@, s.capacity, path, Decoded(path))]
       IN IF path = cur_path(s1)
          THEN display_cached(s1, path, Decoded(path))
          ELSE s1

on_loaded_currentonly(s, req, path, ok, role) ==
  IF ~ok
  THEN IF path = cur_path(s) THEN skip_corrupted_current(s) ELSE s
  ELSE IF path = cur_path(s)
       THEN display_cached(
              [s EXCEPT !.items = put(@, s.capacity, path, Decoded(path))],
              path, Decoded(path))
       ELSE s

on_loaded_mainonly(s, req, path, ok, role) ==
  IF ~ok
  THEN IF path = cur_path(s) /\ role = "main"
       THEN skip_corrupted_current(s) ELSE s
  ELSE LET s1 == [s EXCEPT !.items = put(@, s.capacity, path, Decoded(path))]
       IN IF path = cur_path(s1) /\ role = "main"
          THEN display_cached(s1, path, Decoded(path))
          ELSE s1

\* MainWindow._on_loaded; ok is FALSE when qimage, info and meta are None
on_loaded(s, req, path, ok, role) ==
  IF ~ok
  THEN IF path = cur_path(s) THEN skip_corrupted_current(s) ELSE s
  ELSE LET s1 == [s EXCEPT !.items = put(@, s.capacity, path, Decoded(path))]
       IN IF path = cur_path(s1)
          THEN display_cached(s1, path, Decoded(path))
          ELSE s1

drop_loader_keepinflight(s, i) ==
  [s EXCEPT !.loaders = RemoveAt(@, i - 1)]

drop_loader_keepthread(s, i) ==
  [s EXCEPT !.inflight_loads = @ \ {s.loaders[i].path}]

\* MainWindow._drop_loader for the thread at position i of _loaders
drop_loader(s, i) ==
  [s EXCEPT !.inflight_loads = @ \ {s.loaders[i].path},
            !.loaders = RemoveAt(@, i - 1)]

\* FolderScanThread.run: listing is the set of supported files os.scandir
\* yields, readable is FALSE when scanning raises
FolderScanRun(listing, selected, readable) ==
  IF ~readable THEN [files |-> <<>>, index |-> 0]
  ELSE LET files == SortedSeq(listing)
       IN [files |-> files,
           index |-> IF selected # NoPath /\ selected \in Range(files)
                     THEN PosOf(files, selected) - 1 ELSE 0]

on_scanned_nocheck(s, token, payload) ==
  IF Len(payload.files) = 0 THEN s
  ELSE LET n == Len(payload.files)
           s1 == [s EXCEPT !.image_files = payload.files,
                           !.thumb_preview = {},
                           !.thumb_index = IndexMap(payload.files),
                           !.current_index = Max(0, Min(payload.index, n - 1))]
       IN load_current(start_thumbnail_loader(populate_thumbnails(s1)))

on_scanned_clearcache(s, token, payload) ==
  IF token # s.scan_token THEN s
  ELSE IF Len(payload.files) = 0 THEN s
  ELSE LET n == Len(payload.files)
           s1 == [s EXCEPT !.image_files = payload.files,
                           !.items = <<>>,
                           !.thumb_preview = {},
                           !.thumb_index = IndexMap(payload.files),
                           !.current_index = Max(0, Min(payload.index, n - 1))]
       IN load_current(start_thumbnail_loader(populate_thumbnails(s1)))

on_scanned_applyempty(s, token, payload) ==
  IF token # s.scan_token THEN s
  ELSE IF Len(payload.files) = 0
  THEN [s EXCEPT !.image_files = <<>>,
                 !.thumb_preview = {},
                 !.thumb_index = <<>>,
                 !.current_index = -1]
  ELSE LET n == Len(payload.files)
           s1 == [s EXCEPT !.image_files = payload.files,
                           !.thumb_preview = {},
                           !.thumb_index = IndexMap(payload.files),
                           !.current_index = Max(0, Min(payload.index, n - 1))]
       IN load_current(start_thumbnail_loader(populate_thumbnails(s1)))

\* MainWindow._on_scanned
on_scanned(s, token, payload) ==
  IF token # s.scan_token THEN s
  ELSE IF Len(payload.files) = 0 THEN s
  ELSE LET n == Len(payload.files)
           s1 == [s EXCEPT !.image_files = payload.files,
                           !.thumb_preview = {},
                           !.thumb_index = IndexMap(payload.files),
                           !.current_index = Max(0, Min(payload.index, n - 1))]
       IN load_current(start_thumbnail_loader(populate_thumbnails(s1)))

on_thumbnail_ready_nocheck(s, token, path) ==
  LET s1 == [s EXCEPT !.thumb_preview = @ \cup {path}]
  IN IF path \notin DOMAIN s1.thumb_index THEN s1
     ELSE LET idx == s1.thumb_index[path]
          IN IF idx >= Len(s1.thumb_icons) THEN s1
             ELSE [s1 EXCEPT !.thumb_icons[idx + 1] = path]

\* MainWindow._on_thumbnail_ready
on_thumbnail_ready(s, token, path) ==
  IF token # s.thumb_token THEN s
  ELSE LET s1 == [s EXCEPT !.thumb_preview = @ \cup {path}]
       IN IF path \notin DOMAIN s1.thumb_index THEN s1
          ELSE LET idx == s1.thumb_index[path]
               IN IF idx >= Len(s1.thumb_icons) THEN s1
                  ELSE [s1 EXCEPT !.thumb_icons[idx + 1] = path]

next_index_clamped(index, n) == Min(index + 1, n - 1)

\* the index arithmetic of next_image and prev_image
next_index(index, n) == (index + 1) % n

prev_index(index, n) == (index - 1) % n

next_image_noload(s) ==
  IF Len(s.image_files) = 0 THEN s
  ELSE sync_thumb_selection(
         [s EXCEPT !.current_index = next_index(@, Len(s.image_files))])

\* MainWindow.next_image
next_image(s) ==
  IF Len(s.image_files) = 0 THEN s
  ELSE load_current([s EXCEPT !.current_index =
                                 next_index(@, Len(s.image_files))])

\* MainWindow.prev_image
prev_image(s) ==
  IF Len(s.image_files) = 0 THEN s
  ELSE load_current([s EXCEPT !.current_index =
                                 prev_index(@, Len(s.image_files))])

move_selection_nowrap(s, step) ==
  IF Len(s.image_files) = 0 THEN s
  ELSE sync_thumb_selection([s EXCEPT !.current_index = @ + step])

\* MainWindow._move_selection_only
move_selection_only(s, step) ==
  IF Len(s.image_files) = 0 THEN s
  ELSE sync_thumb_selection(
         [s EXCEPT !.current_index = (@ + step) % Len(s.image_files)])

\* MainWindow._open_selected
open_selected(s) ==
  IF Len(s.image_files) = 0 THEN s
  ELSE load_current(
         IF 0 <= s.thumb_row /\ s.thumb_row < Len(s.image_files)
         THEN [s EXCEPT !.current_index = s.thumb_row] ELSE s)

\* MainWindow.on_thumbnail_clicked: the clicked item is the current row
on_thumbnail_clicked(s, row) ==
  LET s1 == [s EXCEPT !.thumb_row = row]
  IN IF 0 <= row /\ row < Len(s1.image_files)
     THEN load_current([s1 EXCEPT !.current_index = row])
     ELSE s1

\* ---------------------------------------------------------------- history
Step(op, arg, ok, cur, calls) ==
  [op |-> op, arg |-> arg, ok |-> ok, cur |-> cur, calls |-> calls]

NoNav == [start |-> -1, count |-> 0]

\* the run of next_image calls: it starts over when another step changes the
\* file list or the index, and after len(image_files) calls
NavAfter(op, s) ==
  IF op = "next_image" /\ Len(image_files) > 0
  THEN IF nav.count > 0 /\ nav.count < Len(image_files)
       THEN [nav EXCEPT !.count = @ + 1]
       ELSE [start |-> current_index, count |-> 1]
  ELSE IF s.image_files = image_files /\ s.current_index = current_index
       THEN nav
       ELSE NoNav

\* the control thread's state after a handler, and the history of the step
Apply(s, op, arg, ok) ==
  /\ image_files' = s.image_files
  /\ current_index' = s.current_index
  /\ capacity' = s.capacity
  /\ items' = s.items
  /\ display' = s.display
  /\ thumb_preview' = s.thumb_preview
  /\ thumb_index' = s.thumb_index
  /\ thumb_icons' = s.thumb_icons
  /\ thumb_row' = s.thumb_row
  /\ inflight_loads' = s.inflight_loads
  /\ loaders' = s.loaders
  /\ request_id' = s.request_id
  /\ scan_token' = s.scan_token
  /\ thumb_token' = s.thumb_token
  /\ thumb_threads' = s.thumb_threads
  /\ last' = Step(op, arg, ok, cur_path(Main), s.calls)
  /\ nav' = NavAfter(op, s)
  /\ UNCHANGED recency

\* ------------------------------------------------------------ the program
\* MainWindow.__init__; the model also runs the window with a small cache
InitMain(cap) ==
  /\ image_files = <<>>
  /\ current_index = -1
  /\ capacity = ImageCacheInit(cap)
  /\ items = <<>>
  /\ display = NoDisplay
  /\ thumb_preview = {}
  /\ thumb_index = <<>>
  /\ thumb_icons = <<>>
  /\ thumb_row = -1
  /\ inflight_loads = {}
  /\ loaders = <<>>
  /\ request_id = 0
  /\ scan_token = 0
  /\ thumb_token = 0
  /\ scan_threads = {}
  /\ thumb_threads = {}
  /\ thumb_events = <<>>
  /\ last = Step("init", 0, TRUE, NoPath, <<>>)
  /\ recency = <<>>
  /\ nav = NoNav

Init(b) == \E cap \in b.caps : InitMain(cap)

\* open_file (selected is the chosen file) and open_folder (NoPath), both
\* through MainWindow._scan_folder
ScanFolder(b, selected) ==
  /\ scan_token < b.scans
  /\ scan_threads' = scan_threads \cup
                       {[token |-> scan_token + 1, selected |-> selected]}
  /\ Apply([Main EXCEPT !.scan_token = @ + 1], "_scan_folder", selected, TRUE)
  /\ UNCHANGED thumb_events

\* a scan thread runs and its scanned signal is handled
OnScanned(b, t, listing, readable) ==
  /\ t \in scan_threads
  /\ listing \in b.listings
  /\ scan_threads' = scan_threads \ {t}
  /\ Apply(on_scanned(Main, t.token,
                      FolderScanRun(listing, t.selected, readable)),
           "_on_scanned", t.token, readable /\ listing # {})
  /\ UNCHANGED thumb_events

NextImage(b) ==
  /\ request_id < b.requests
  /\ Apply(next_image(Main), "next_image", 0, TRUE)
  /\ UNCHANGED <<scan_threads, thumb_events>>

PrevImage(b) ==
  /\ request_id < b.requests
  /\ Apply(prev_image(Main), "prev_image", 0, TRUE)
  /\ UNCHANGED <<scan_threads, thumb_events>>

MoveSelectionOnly(b, step) ==
  /\ request_id < b.requests
  /\ Apply(move_selection_only(Main, step), "_move_selection_only", step, TRUE)
  /\ UNCHANGED <<scan_threads, thumb_events>>

OpenSelected(b) ==
  /\ request_id < b.requests
  /\ Apply(open_selected(Main), "_open_selected", 0, TRUE)
  /\ UNCHANGED <<scan_threads, thumb_events>>

OnThumbnailClicked(b, row) ==
  /\ request_id < b.requests
  /\ row \in 0..(Len(thumb_icons) - 1)
  /\ Apply(on_thumbnail_clicked(Main, row), "on_thumbnail_clicked", row, TRUE)
  /\ UNCHANGED <<scan_threads, thumb_events>>

\* ImageLoaderThread.run of the thread at position i: decode_image returns
\* (ok) or raises, and the loaded signal is handled by _on_loaded
OnLoaded(b, i, ok) ==
  /\ i \in 1..Len(loaders)
  /\ ok \in b.decodes
  /\ ~loaders[i].emitted
  /\ LET t == loaders[i]
         s == [Main EXCEPT !.loaders[i].emitted = TRUE]
     IN Apply(on_loaded(s, t.request_id, t.path, ok, t.role),
              "_on_loaded", t.path, ok)
  /\ UNCHANGED <<scan_threads, thumb_events>>

\* the finished signal of a thread whose run has returned
DropLoader(i) ==
  /\ i \in 1..Len(loaders)
  /\ loaders[i].emitted
  /\ Apply(drop_loader(Main, i), "_drop_loader", loaders[i].path, TRUE)
  /\ UNCHANGED <<scan_threads, thumb_events>>

\* one iteration of ThumbnailLoaderThread.run: the list iterator yields the
\* next path of the list as it is now (decoded, ok, or skipped)
ThumbnailStep(b, t, ok) ==
  /\ t \in thumb_threads
  /\ t.pos < Len(t.files)
  /\ t.pos < b.thumbs
  /\ thumb_events' =
       IF ok THEN Append(thumb_events,
                         [token |-> t.token, path |-> t.files[t.pos + 1]])
       ELSE thumb_events
  /\ Apply([Main EXCEPT !.thumb_threads =
                           (@ \ {t}) \cup {[t EXCEPT !.pos = @ + 1]}],
           "thumbnail_run", t.files[t.pos + 1], ok)
  /\ UNCHANGED scan_threads

\* the list iterator is exhausted and ThumbnailLoaderThread.run returns
ThumbnailEnd(t) ==
  /\ t \in thumb_threads
  /\ t.pos >= Len(t.files)
  /\ Apply([Main EXCEPT !.thumb_threads = @ \ {t}],
           "thumbnail_end", t.token, TRUE)
  /\ UNCHANGED <<scan_threads, thumb_events>>

OnThumbnailReady ==
  /\ Len(thumb_events) > 0
  /\ LET e == Head(thumb_events)
     IN Apply(on_thumbnail_ready(Main, e.token, e.path),
              "_on_thumbnail_ready", e.path, e.token = thumb_token)
  /\ thumb_events' = Tail(thumb_events)
  /\ UNCHANGED scan_threads

Next(b) ==
  \/ \E selected \in b.selected : ScanFolder(b, selected)
  \/ \E t \in scan_threads, listing \in b.listings, readable \in BOOLEAN :
       OnScanned(b, t, listing, readable)
  \/ NextImage(b)
  \/ PrevImage(b)
  \/ \E step \in {-1, 1} : MoveSelectionOnly(b, step)
  \/ OpenSelected(b)
  \/ \E row \in 0..(NumPaths - 1) : OnThumbnailClicked(b, row)
  \/ \E i \in 1..Len(loaders), ok \in b.decodes : OnLoaded(b, i, ok)
  \/ \E i \in 1..Len(loaders) : DropLoader(i)
  \/ \E t \in thumb_threads, ok \in BOOLEAN : ThumbnailStep(b, t, ok)
  \/ \E t \in thumb_threads : ThumbnailEnd(t)
  \/ OnThumbnailReady

\* the program with one folder scan: navigation and decoding
Spec == Init(SpecBounds) /\ [][Next(SpecBounds)]_vars

\* the program with one folder of NumPaths files and longer navigation
NavSpec == Init(NavBounds) /\ [][Next(NavBounds)]_vars

\* the program with two folder scans
ScanSpec == Init(ScanBounds) /\ [][Next(ScanBounds)]_vars

\* the program with one folder scan and its whole thumbnail batch
ThumbSpec == Init(ThumbBounds) /\ [][Next(ThumbBounds)]_vars

\* the program opening one folder of decodable files, with a small cache
SceneSpec == Init(SceneBounds) /\ [][Next(SceneBounds)]_vars

\* the program opening one folder larger than its cache
PreloadSpec == Init(PreloadBounds) /\ [][Next(PreloadBounds)]_vars

\* the program with two folder scans and a small cache
EvictSpec == Init(EvictBounds) /\ [][Next(EvictBounds)]_vars

\* Every started QThread runs: a loader thread whose run has not emitted gets
\* to emit and have its signal handled, and the finished signal of a thread
\* whose run has returned is handled.
LoaderFairness(b) ==
  /\ WF_vars(\E i \in 1..Len(loaders) :
               OnLoaded(b, i, TRUE) \/ OnLoaded(b, i, FALSE))
  /\ WF_vars(\E i \in 1..Len(loaders) : DropLoader(i))

\* the program with one folder scan under fair scheduling of the loaders
LiveSpec ==
  Init(LiveBounds) /\ [][Next(LiveBounds)]_vars /\ LoaderFairness(LiveBounds)

\* ------------------------------------------------------ ImageCache alone
\* An ImageCache of any capacity argument under any sequence of get and put.
\* recency is the order in which the keys were last touched; a put's step
\* records whether it overflowed, the key a get hit just before it, and the
\* call with the item put.
CacheInit ==
  \E cap \in 0..MaxCapacity : InitMain(cap)

Touch(rec, path) == Append(Without(rec, path), path)

CacheUnchanged ==
  UNCHANGED <<image_files, current_index, capacity, display, thumb_preview,
              thumb_index, thumb_icons, thumb_row, inflight_loads, loaders,
              request_id, scan_token, thumb_token, scan_threads,
              thumb_threads, thumb_events, nav>>

CacheGet(path) ==
  LET g == get(items, path)
  IN /\ items' = g.items
     /\ recency' = IF path \in Keys(items) THEN Touch(recency, path)
                   ELSE recency
     /\ last' = Step("get", path, g.ret # NoItem, NoPath, <<>>)
     /\ CacheUnchanged

CachePut(path, item) ==
  /\ items' = put(items, capacity, path, item)
  /\ recency' = Touch(recency, path)
  /\ last' = Step("put", path, Cardinality(Keys(items) \cup {path}) > capacity,
                  IF last.op = "get" /\ last.ok THEN last.arg ELSE NoPath,
                  <<[fn |-> "put", path |-> path, item |-> item]>>)
  /\ CacheUnchanged

CacheNext ==
  \/ \E path \in Paths : CacheGet(path)
  \/ \E path \in Paths, item \in 1..NumItems : CachePut(path, item)

CacheSpec == CacheInit /\ [][CacheNext]_vars

\* ------------------------------------------------ FolderScanThread alone
\* A character is its code point and a string is a sequence of characters.
SUPPORTED_EXTENSIONS ==
  {<<46, 106, 112, 103>>,  \* .jpg
   <<46, 106, 112, 101, 103>>,  \* .jpeg
   <<46, 112, 110, 103>>,  \* .png
   <<46, 98, 109, 112>>,  \* .bmp
   <<46, 103, 105, 102>>,  \* .gif
   <<46, 119, 101, 98, 112>>,  \* .webp
   <<46, 116, 105, 102>>,  \* .tif
   <<46, 116, 105, 102, 102>>,  \* .tiff
   <<46, 104, 101, 105, 99>>,  \* .heic
   <<46, 104, 101, 105, 102>>,  \* .heif
   <<46, 99, 114, 50>>,  \* .cr2
   <<46, 110, 101, 102>>,  \* .nef
   <<46, 97, 114, 119>>,  \* .arw
   <<46, 100, 110, 103>> }  \* .dng

\* str.lower() of a character
lower_char(c) == IF 65 <= c /\ c <= 90 THEN c + 32 ELSE c

\* str.lower()
lower(str) == [i \in 1..Len(str) |-> lower_char(str[i])]

\* os.path.splitext(name)[1]: the name from its last dot on, or nothing when
\* there is no dot or only dots stand before the last one
splitext(name) ==
  LET dots == {i \in 1..Len(name) : name[i] = 46}
  IN IF dots = {} THEN <<>>
     ELSE LET d == CHOOSE i \in dots : \A j \in dots : j <= i
          IN IF \E i \in 1..(d - 1) : name[i] # 46
             THEN SubSeq(name, d, Len(name))
             ELSE <<>>

\* the names a scanned folder may hold, in the ascending order of their
\* absolute paths; the path of a name is its position here
EntryNames ==
  <<<<46, 104, 101, 105, 99>>,  \* .heic
   <<66, 46, 80, 78, 71>>,  \* B.PNG
   <<97, 46, 106, 112, 103>>,  \* a.jpg
   <<99, 46, 116, 120, 116>>,  \* c.txt
   <<100, 46, 68, 110, 103>> >>  \* d.Dng

\* the order of str: by code point, a proper prefix first
RECURSIVE StrLess(_, _)
StrLess(a, b) ==
  IF b = <<>> THEN FALSE
  ELSE IF a = <<>> THEN TRUE
  ELSE IF Head(a) # Head(b) THEN Head(a) < Head(b)
  ELSE StrLess(Tail(a), Tail(b))

NamesAscending ==
  \A i \in 1..(Len(EntryNames) - 1) : StrLess(EntryNames[i], EntryNames[i + 1])

\* the os.DirEntry objects of a folder: dir is the set of names present, and
\* dirs those of them that are directories
Entries(dir, dirs) ==
  {[path |-> i, name |-> EntryNames[i], file |-> i \notin dirs] : i \in dir}

ScanEntries_casesensitive(entries) ==
  {e.path : e \in {x \in entries :
                     x.file /\ splitext(x.name) \in SUPPORTED_EXTENSIONS}}

\* the loop of FolderScanThread.run over os.scandir
ScanEntries(entries) ==
  {e.path : e \in {x \in entries :
                     x.file /\ lower(splitext(x.name)) \in SUPPORTED_EXTENSIONS}}

\* FolderScanThread.run: the scanned signal it emits
FolderScanThreadRun(t) ==
  LET payload == FolderScanRun(ScanEntries(t.entries), t.selected, t.readable)
  IN [token |-> t.token, files |-> payload.files, index |-> payload.index]

\* a FolderScanThread of any token, over any folder and selected file, runs;
\* the step records the thread and the signal
FolderScanStep(token, dir, dirs, selected, readable) ==
  LET t == [token |-> token, selected |-> selected,
            entries |-> Entries(dir, dirs), readable |-> readable]
  IN /\ last' = Step("FolderScanThread.run", FolderScanThreadRun(t),
                      readable, t, <<>>)
     /\ UNCHANGED <<image_files, current_index, capacity, items, display,
                    thumb_preview, thumb_index, thumb_icons, thumb_row,
                    inflight_loads, loaders, request_id, scan_token,
                    thumb_token, scan_threads, thumb_threads, thumb_events,
                    recency, nav>>

FolderScanInit == NamesAscending /\ InitMain(DefaultCapacity)

FolderScanNext ==
  \E token \in 1..MaxScanTokenRun, dir \in SUBSET (1..Len(EntryNames)),
     dirs \in SUBSET {Len(EntryNames)},
     selected \in 0..Len(EntryNames), readable \in BOOLEAN :
    FolderScanStep(token, dir, dirs, selected, readable)

FolderScanSpec == FolderScanInit /\ [][FolderScanNext]_vars

\* ----------------------------------------------------------------- claims
\* C1: for any sequence of ImageCache.put and ImageCache.get calls on a cache
\* of capacity C >= 1, the number of stored entries never exceeds C.
C1_SizeWithinCapacity ==
  /\ capacity >= 1
  /\ Len(items) <= capacity
  /\ Cardinality(Keys(items)) = Len(items)

\* a put that overflowed left the cache exactly full
C1_Witness ==
  /\ last.op = "put"
  /\ last.ok
  /\ Len(items) = capacity

\* the member of S touched longest ago
LeastRecent(rec, S) ==
  CHOOSE k \in S : \A j \in S : PosOf(rec, k) <= PosOf(rec, j)

\* C2: whenever a put overflows the capacity, the entry evicted is the one
\* whose most recent touch (a get that hit it, or a put of its key) is older
\* than that of every other entry present; every other entry stays, and so
\* does a key a get has just touched when another entry is present.
C2_EvictsLeastRecentlyTouched ==
  [][(last'.op = "put" /\ last'.ok) =>
       /\ Keys(items) \ {last'.arg} # {}
       /\ Keys(items') =
            (Keys(items) \cup {last'.arg})
              \ {LeastRecent(recency, Keys(items) \ {last'.arg})}
       /\ (last.op = "get" /\ last.ok /\ Len(items) >= 2)
            => last.arg \in Keys(items')]_vars

\* a get hit a key, the next put overflowed, and the key is still cached
\* while it was not the entry inserted last
C2_Witness ==
  /\ last.op = "put"
  /\ last.ok
  /\ last.cur # NoPath
  /\ last.cur # last.arg
  /\ last.cur \in Keys(items)
  /\ Len(items) >= 2

\* the path at current_index, NoPath when nothing is selected
CurrentPath ==
  IF 0 <= current_index /\ current_index < Len(image_files)
  THEN image_files[current_index + 1]
  ELSE NoPath

LoadersOf(ls, path) == {i \in 1..Len(ls) : ls[i].path = path}

\* C3: a _request_load for a path whose earlier request has not terminated
\* returns None and starts no worker; there is never more than one decode
\* worker per path.
C3_Dedup ==
  /\ [](/\ \A p \in Paths : Cardinality(LoadersOf(loaders, p)) <= 1
        /\ \A i \in 1..Len(last.calls) :
             (last.calls[i].fn = "_request_load" /\ last.calls[i].dup)
               => last.calls[i].ret = NoRequest)
  /\ [][\A p \in inflight_loads :
          /\ Cardinality(LoadersOf(loaders', p))
               <= Cardinality(LoadersOf(loaders, p))
          /\ \A i \in LoadersOf(loaders', p) :
               loaders'[i].request_id <= request_id]_vars

\* a handler asked for a path that was in flight and was refused
C3_Witness ==
  \E i \in 1..Len(last.calls) :
    /\ last.calls[i].fn = "_request_load"
    /\ last.calls[i].dup
    /\ last.calls[i].ret = NoRequest
    /\ last.calls[i].path \in inflight_loads
    /\ Cardinality(LoadersOf(loaders, last.calls[i].path)) = 1

\* C4: a scan result whose token differs from the current scan token leaves
\* image_files and current_index unchanged; a result that changes them
\* carries the token of the scan started last.
C4_StaleScanDropped ==
  [][last'.op = "_on_scanned" =>
       /\ last'.arg # scan_token
            => (image_files' = image_files /\ current_index' = current_index)
       /\ (image_files' # image_files \/ current_index' # current_index)
            => /\ last'.arg = scan_token
               /\ \A t \in scan_threads : t.token <= last'.arg]_vars

\* the result of scan 1, with files, arrived after scan 2 was started and
\* before any result was applied, and the list is still empty
C4_Witness ==
  /\ last.op = "_on_scanned"
  /\ last.ok
  /\ last.arg = 1
  /\ scan_token = 2
  /\ image_files = <<>>
  /\ current_index = -1

\* C5: a successful decode result for path p is displayed exactly when p is
\* the path at current_index on arrival; a result for another path leaves
\* the display as it was.
C5_StaleDecodeNotDisplayed ==
  [][(last'.op = "_on_loaded" /\ last'.ok) =>
       IF last'.arg = CurrentPath
       THEN display' = [kind |-> "full", path |-> last'.arg]
       ELSE display' = display]_vars

\* a preload's result arrived while the current path's image was displayed
C5_Witness ==
  /\ last.op = "_on_loaded"
  /\ last.ok
  /\ CurrentPath # NoPath
  /\ last.arg # CurrentPath
  /\ display = [kind |-> "full", path |-> CurrentPath]

\* C6: a decode failure for the path at current_index of a list of n >= 2
\* removes exactly that entry, makes current_index min(old index, n - 2) and
\* runs load_current for the new current path.
C6_CorruptedRemoved ==
  [][(/\ last'.op = "_on_loaded"
      /\ ~last'.ok
      /\ last'.arg = CurrentPath
      /\ Len(image_files) >= 2) =>
       /\ image_files' = SubSeq(image_files, 1, current_index)
                           \o SubSeq(image_files, current_index + 2,
                                     Len(image_files))
       /\ current_index' = Min(current_index, Len(image_files) - 2)
       /\ Len(last'.calls) > 0
       /\ last'.calls[1] = CallEntry("load_current",
                                     image_files'[current_index' + 1],
                                     "", NoRequest, FALSE)
       /\ \/ image_files'[current_index' + 1] \in inflight_loads'
          \/ display' = [kind |-> "full",
                         path |-> image_files'[current_index' + 1]]]_vars

\* [A, B, C] at index 1: B failed, the list is [A, C] at index 1 and
\* load_current ran for C
C6_Witness ==
  /\ last.op = "_on_loaded"
  /\ ~last.ok
  /\ last.arg = 2
  /\ last.cur = 2
  /\ image_files = <<1, 3>>
  /\ current_index = 1
  /\ Len(last.calls) > 0
  /\ last.calls[1].fn = "load_current"
  /\ last.calls[1].path = 3

\* C7 as stated: a decode failure for A in the list [A] at index 0 yields an
\* empty file list and a cleared display.
C7_SingleFileListEmptied ==
  [][(/\ last'.op = "_on_loaded"
      /\ ~last'.ok
      /\ last'.arg = CurrentPath
      /\ Len(image_files) = 1) =>
       (image_files' = <<>> /\ display' = NoDisplay)]_vars

\* C7, amended: a decode failure for A in the list [A] at index 0 clears the
\* display and leaves the list [A] and current_index 0.
C7_SingleFileKept ==
  [][(/\ last'.op = "_on_loaded"
      /\ ~last'.ok
      /\ last'.arg = CurrentPath
      /\ Len(image_files) = 1) =>
       /\ display' = NoDisplay
       /\ image_files' = image_files
       /\ current_index' = 0
       /\ last'.calls = <<>>]_vars

\* the only file of the list failed to decode
C7_Witness ==
  /\ last.op = "_on_loaded"
  /\ ~last.ok
  /\ last.cur = last.arg
  /\ image_files = <<last.arg>>
  /\ current_index = 0
  /\ display = NoDisplay

\* C8: a decode failure for a path that is not the path at current_index
\* leaves image_files, current_index, the cache and the display unchanged.
C8_OtherFailureIgnored ==
  [][(/\ last'.op = "_on_loaded"
      /\ ~last'.ok
      /\ last'.arg # CurrentPath) =>
       UNCHANGED <<image_files, current_index, items, display>>]_vars

\* a preload of a listed file failed while another file was current
C8_Witness ==
  /\ last.op = "_on_loaded"
  /\ ~last.ok
  /\ CurrentPath # NoPath
  /\ last.arg # CurrentPath
  /\ last.arg \in Range(image_files)

\* C9: on a list of length N >= 2 that is not modified in between, N calls
\* of next_image return current_index to where it started, and prev_image
\* at index 0 yields N - 1.
C9_Wraparound ==
  [][/\ (nav'.count = Len(image_files') /\ Len(image_files') >= 2)
          => current_index' = nav'.start
     /\ (last'.op = "prev_image" /\ current_index = 0
           /\ Len(image_files) >= 2)
          => current_index' = Len(image_files) - 1]_vars

\* N calls of next_image were made and the index is back at its start
C9_Witness ==
  /\ last.op = "next_image"
  /\ Len(image_files) >= 2
  /\ nav.count = Len(image_files)
  /\ current_index = nav.start

\* C10: in every reachable state -1 <= current_index < len(image_files).
C10_IndexInRange ==
  /\ -1 <= current_index
  /\ current_index < Len(image_files)

\* the last file of the list was current and was removed as corrupted
C10_Witness ==
  /\ last.op = "_on_loaded"
  /\ ~last.ok
  /\ last.cur = last.arg
  /\ Len(image_files) >= 1
  /\ last.arg > image_files[Len(image_files)]
  /\ current_index = Len(image_files) - 1

\* the loader threads whose run has not emitted yet
Pending(ls) == {t \in Range(ls) : ~t.emitted}

RequestIds(ls) == {t.request_id : t \in Range(ls)}

\* the requests a handler's _request_load calls accepted
Accepted(calls) ==
  {calls[i] : i \in {j \in 1..Len(calls) :
                      calls[j].fn = "_request_load" /\ calls[j].ret # NoRequest}}

\* C11: every accepted decode request (one _request_load returned an id for)
\* gets a worker with a fresh id, and that worker's terminal event is
\* delivered to _on_loaded exactly once, for the worker's path, as a success
\* or as a failure: a step delivers at most one event, a delivered event is
\* never delivered again, and under fair scheduling it is always delivered.
C11_OneTerminalEvent ==
  /\ [][/\ \A c \in Accepted(last'.calls) :
             /\ c.ret > request_id
             /\ c.ret \notin RequestIds(loaders)
             /\ [request_id |-> c.ret, path |-> c.path, role |-> c.role,
                 emitted |-> FALSE] \in Range(loaders')
        /\ Cardinality(RequestIds(loaders')) = Len(loaders')
        /\ \A t \in Pending(loaders) :
             \/ t \in Pending(loaders')
             \/ /\ [t EXCEPT !.emitted = TRUE] \in Range(loaders')
                /\ last'.op = "_on_loaded"
                /\ last'.arg = t.path
                /\ last'.ok \in BOOLEAN
        /\ \A t \in Range(loaders) \ Pending(loaders) :
             [t EXCEPT !.emitted = FALSE] \notin Range(loaders')
        /\ last'.op = "_on_loaded"
             => Cardinality(Pending(loaders) \ Pending(loaders')) = 1]_vars
  /\ \A p \in Paths :
       (\E t \in Pending(loaders) : t.path = p)
         ~> ~(\E t \in Pending(loaders) : t.path = p)

\* a preload's failure was delivered while its worker is still registered
C11_Witness ==
  /\ last.op = "_on_loaded"
  /\ ~last.ok
  /\ \E t \in Range(loaders) :
       t.path = last.arg /\ t.emitted /\ t.role = "preload"

\* C12: every path in the in-flight set is eventually out of it: the
\* finished signal of its worker removes it whether the decode succeeded or
\* failed and whatever _on_loaded did with the result (fair scheduling).
C12_InflightReleased ==
  /\ [][last'.op = "_drop_loader" => last'.arg \notin inflight_loads']_vars
  /\ \A p \in Paths : (p \in inflight_loads) ~> (p \notin inflight_loads)

\* the worker of a file that failed and was removed from the list has ended
C12_Witness ==
  /\ last.op = "_drop_loader"
  /\ last.arg \notin inflight_loads
  /\ last.arg \notin Keys(items)
  /\ last.arg \notin Range(image_files)
  /\ image_files # <<>>

\* the _request_load calls of a handler that were refused as duplicates
Dropped(calls) ==
  {calls[i] : i \in {j \in 1..Len(calls) :
                      calls[j].fn = "_request_load" /\ calls[j].dup}}

\* C13: whenever _request_load returns None because the path is in flight,
\* the terminal event of the outstanding decode for that path is still to be
\* handled by the controller: a worker for the path has not emitted yet, so
\* the dropped requester is served by it.
C13_DroppedRequestServed ==
  [][\A c \in Dropped(last'.calls) :
       \E t \in Pending(loaders') : t.path = c.path]_vars

\* load_current's request for the current path was dropped although the
\* failure of that path's decode had already been handled (and ignored, the
\* path not being current then): nothing is left to display or skip it
C13_DroppedAfterDelivery ==
  /\ last.op = "next_image"
  /\ Len(image_files) >= 2
  /\ CurrentPath # NoPath
  /\ CallEntry("_request_load", CurrentPath, "main", NoRequest, TRUE)
       \in Dropped(last.calls)
  /\ \E t \in Range(loaders) : t.path = CurrentPath /\ t.emitted
  /\ Pending(loaders) \cap {t \in Range(loaders) : t.path = CurrentPath} = {}
  /\ CurrentPath \notin Keys(items)
  /\ display.path # CurrentPath

\* load_current ran in the step that led to this state
LoadCurrentRan(calls) ==
  \E i \in 1..Len(calls) : calls[i].fn = "load_current"

\* the path is in the cache or in the in-flight set
CachedOrInflight(its, inflight, path) ==
  path \in Keys(its) \/ path \in inflight

\* C14 as stated: after load_current on a list of length >= 3 the paths at
\* (index - 1) mod len and (index + 1) mod len are each cached or in flight,
\* the wrapped neighbour of the first and of the last index included.
C14_WrappedNeighboursPreloaded ==
  [][(LoadCurrentRan(last'.calls) /\ Len(image_files') >= 3) =>
       \A off \in {-1, 1} :
         CachedOrInflight(
           items', inflight_loads',
           image_files'[((current_index' + off) % Len(image_files')) + 1])
    ]_vars

\* C14, amended: after load_current on a list of length >= 3 the paths at
\* index - 1 and index + 1 that lie inside the list are each cached or in
\* flight, and _request_load with role "preload" was called for each of them
\* that is not cached; nothing is requested beyond the ends of the list.
C14_InRangeNeighboursPreloaded ==
  [][(LoadCurrentRan(last'.calls) /\ Len(image_files') >= 3) =>
       /\ \A off \in {-1, 1} :
            LET idx == current_index' + off
            IN (0 <= idx /\ idx < Len(image_files')) =>
                 LET path == image_files'[idx + 1]
                 IN /\ CachedOrInflight(items', inflight_loads', path)
                    /\ path \notin Keys(items') =>
                         \E c \in Range(last'.calls) :
                           /\ c.fn = "_request_load"
                           /\ c.path = path
                           /\ c.role = "preload"
       /\ \A c \in Range(last'.calls) :
            (c.fn = "_request_load" /\ c.role = "preload") =>
              \E off \in {-1, 1} :
                /\ 0 <= current_index' + off
                /\ current_index' + off < Len(image_files')
                /\ c.path = image_files'[current_index' + off + 1]]_vars

\* load_current ran at the first index of a three-file list: the next file
\* is in flight, the last file is neither cached nor in flight
C14_Witness ==
  /\ LoadCurrentRan(last.calls)
  /\ Len(image_files) = 3
  /\ current_index = 0
  /\ image_files[2] \in inflight_loads
  /\ ~CachedOrInflight(items, inflight_loads, image_files[3])

\* load_current ran for the path that is current after the step
LoadedCurrent ==
  /\ CallEntry("load_current", CurrentPath', "", NoRequest, FALSE)
       \in Range(last'.calls)
  /\ CachedOrInflight(items', inflight_loads', CurrentPath')

\* C15 as stated: immediately after any operation that changed current_index
\* on a non-empty list (a selection move included), load_current has run and
\* the new current path is in the cache or in the in-flight set.
C15_LoadAfterEveryIndexChange ==
  [][(current_index' # current_index /\ image_files' # <<>>)
       => LoadedCurrent]_vars

\* C15, amended: that holds after next, prev, a thumbnail click, Enter on the
\* selection, the removal of a corrupted file and an applied scan; a
\* selection move (_move_selection_only) changes current_index and makes no
\* call of load_current or _request_load, and leaves cache, in-flight set and
\* display as they were.
C15_LoadAfterIndexChangeButMove ==
  [][/\ (/\ current_index' # current_index
         /\ image_files' # <<>>
         /\ last'.op # "_move_selection_only") => LoadedCurrent
     /\ last'.op = "_move_selection_only" =>
          /\ last'.calls = <<>>
          /\ UNCHANGED <<items, inflight_loads, loaders, display>>]_vars

\* a selection move made a file current that is neither cached nor in flight
C15_Witness ==
  /\ last.op = "_move_selection_only"
  /\ CurrentPath # NoPath
  /\ CurrentPath # last.cur
  /\ ~CachedOrInflight(items, inflight_loads, CurrentPath)

\* C16: a thumbnail batch started for file list L attempts the files of L
\* one by one in list order, whatever the control thread does meanwhile: its
\* k-th attempt is for the k-th file of L, and it ends only after the last
\* file of L.
C16_BatchFollowsSnapshot ==
  [][/\ last'.op = "thumbnail_run" =>
          \E t \in thumb_threads :
            /\ [t EXCEPT !.pos = @ + 1] \in thumb_threads'
            /\ t.pos < Len(t.started)
            /\ last'.arg = t.started[t.pos + 1]
     /\ last'.op = "thumbnail_end" =>
          \E t \in thumb_threads :
            /\ t.token = last'.arg
            /\ t \notin thumb_threads'
            /\ t.pos = Len(t.started)]_vars

\* the batch for [A, B, C] attempted A, then A was removed as corrupted, and
\* its second attempt was for C: B, still listed, is passed over
C16_ListedFileSkipped ==
  /\ last.op = "thumbnail_run"
  /\ \E t \in thumb_threads :
       /\ t.token = thumb_token
       /\ Len(t.started) = 3
       /\ t.pos = 2
       /\ t.files = image_files
       /\ image_files = <<t.started[2], t.started[3]>>
       /\ last.arg = t.started[3]
  /\ thumb_preview \cap Range(image_files) = {}

\* the folder of ScanBounds a path lies in (its folders are disjoint)
FolderOf(path) == CHOOSE l \in ScanBounds.listings : path \in l

\* C17: a thumbnail event whose token differs from the current thumbnail
\* token on arrival changes neither the preview map nor a thumbnail item;
\* the preview map grows only by the path of an event that carries the
\* current token, applying a scan result empties it and moves the token past
\* every batch and event there is, and so the map never holds a preview of a
\* file of another folder than the one that is open.
C17_StaleThumbnailDropped ==
  /\ [][/\ last'.op = "_on_thumbnail_ready" =>
             IF Head(thumb_events).token # thumb_token
             THEN UNCHANGED <<thumb_preview, thumb_icons, thumb_index>>
             ELSE thumb_preview' = thumb_preview \cup {last'.arg}
        /\ thumb_preview' \ thumb_preview # {} =>
             /\ last'.op = "_on_thumbnail_ready"
             /\ Head(thumb_events).token = thumb_token
        /\ (last'.op = "_on_scanned" /\ thumb_token' # thumb_token) =>
             /\ thumb_preview' = {}
             /\ \A t \in thumb_threads : t.token < thumb_token'
             /\ \A i \in 1..Len(thumb_events) :
                  thumb_events[i].token < thumb_token']_vars
  /\ [](image_files # <<>> => thumb_preview \subseteq FolderOf(image_files[1]))

\* a preview of the first folder's batch arrived after the second folder's
\* scan had been applied, and was dropped
C17_Witness ==
  /\ last.op = "_on_thumbnail_ready"
  /\ ~last.ok
  /\ thumb_token = 2
  /\ image_files # <<>>
  /\ last.arg \notin FolderOf(image_files[1])
  /\ last.arg \notin thumb_preview
  /\ \A i \in 1..Len(thumb_icons) : thumb_icons[i] # last.arg

\* two characters that are equal up to the case of a letter
SameCharIgnoringCase(a, b) ==
  \/ a = b
  \/ 65 <= a /\ a <= 90 /\ b = a + 32
  \/ 65 <= b /\ b <= 90 /\ a = b + 32

SameIgnoringCase(x, y) ==
  /\ Len(x) = Len(y)
  /\ \A i \in 1..Len(x) : SameCharIgnoringCase(x[i], y[i])

\* the paths of the files of a folder whose extension is a supported one
SupportedPaths(entries) ==
  {e.path : e \in {x \in entries :
                     /\ x.file
                     /\ \E ext \in SUPPORTED_EXTENSIONS :
                          SameIgnoringCase(splitext(x.name), ext)}}

\* C18: the scanned signal carries the thread's token; for a readable folder
\* its list holds exactly the files with a supported extension (case
\* ignored), ascending by path, and its index is the position of the
\* selected file when that is in the list and 0 otherwise; for an unreadable
\* folder it carries the empty list and index 0.
C18_ScanResult ==
  last.op = "FolderScanThread.run" =>
    LET t == last.cur
        files == last.arg.files
        index == last.arg.index
    IN /\ last.arg.token = t.token
       /\ IF t.readable
          THEN /\ Range(files) = SupportedPaths(t.entries)
               /\ \A i \in 1..(Len(files) - 1) : files[i] < files[i + 1]
               /\ 0 <= index
               /\ t.selected \in Range(files) => files[index + 1] = t.selected
               /\ t.selected \notin Range(files) => index = 0
          ELSE files = <<>> /\ index = 0

\* a folder with B.PNG, a.jpg, a text file, a hidden .heic and a directory
\* d.Dng, opened through a.jpg: the list is [B.PNG, a.jpg] and the index 1
C18_Witness ==
  /\ last.op = "FolderScanThread.run"
  /\ last.ok
  /\ Cardinality(last.cur.entries) = Len(EntryNames)
  /\ \E e \in last.cur.entries : ~e.file
  /\ last.cur.selected = 3
  /\ last.arg.files = <<2, 3>>
  /\ last.arg.index = 1

\* C19: a folder of N decodable files opened with no pre-selected file is
\* listed in ascending order at index 0; when it is the one folder the
\* viewer has opened, next_image has been called through all N files (N - 1
\* calls in a row from the first file on), every issued decode has been
\* delivered and N is within the capacity, the cache holds exactly N
\* entries, one per file.
C19_Scenario ==
  /\ [][(last'.op = "_on_scanned" /\ image_files' # image_files) =>
          /\ current_index' = 0
          /\ image_files' \in {SortedSeq(l) : l \in SceneBounds.listings}
          /\ \A i \in 1..(Len(image_files') - 1) :
               image_files'[i] < image_files'[i + 1]]_vars
  /\ []((/\ image_files # <<>>
         /\ scan_token = 1
         /\ Len(image_files) <= capacity
         /\ nav.count >= Len(image_files) - 1
         /\ nav.count > 0 => nav.start = 0
         /\ Pending(loaders) = {}) =>
          /\ Keys(items) = Range(image_files)
          /\ Len(items) = Len(image_files))

\* three files, a cache of three: after next, next from the first file and
\* all decodes delivered, the third file is shown and three entries are cached
C19_Witness ==
  /\ image_files = <<1, 2, 3>>
  /\ scan_token = 1
  /\ capacity = 3
  /\ nav = [start |-> 0, count |-> 2]
  /\ current_index = 2
  /\ loaders = <<>>
  /\ Len(items) = 3
  /\ display = [kind |-> "full", path |-> 3]

\* C20: the handling of a successful decode always inserts its result, for
\* a current path or not, listed or not, and removes entries only as put's
\* eviction does: from the old end, while the cache is over capacity; every
\* other step (scan result, navigation, corrupted-file removal, decode
\* failure) leaves the cached paths and their images as they were.
C20_CacheFrame ==
  [][IF last'.op = "_on_loaded" /\ last'.ok
     THEN LET path == last'.arg
              all == Append(DropKey(items, path),
                            [key |-> path, item |-> Decoded(path)])
          IN /\ path \in Keys(items')
             /\ \E k \in 0..Len(all) :
                  /\ items' = SubSeq(all, k + 1, Len(all))
                  /\ k = Max(0, Len(all) - capacity)
     ELSE /\ Keys(items') = Keys(items)
          /\ \A k \in Keys(items) : ItemOf(items', k) = ItemOf(items, k)]_vars

\* the decode of a file of the folder opened before arrived after the next
\* folder was applied: it is cached, and the entry of the image still on
\* display was evicted for it
C20_Witness ==
  /\ last.op = "_on_loaded"
  /\ last.ok
  /\ last.arg \notin Range(image_files)
  /\ image_files # <<>>
  /\ last.arg \in Keys(items)
  /\ Len(items) = capacity
  /\ display.kind = "full"
  /\ display.path \notin Keys(items)

\* the tokens of a set of worker threads
TokensOf(threads) == {t.token : t \in threads}

\* C21: neither token ever decreases; the scan token changes only in
\* _scan_folder, by one, for a scan thread that carries the new value; the
\* thumbnail token changes only when a batch is started, by one, for a batch
\* that carries the new value; so at most one scan and one batch carry the
\* current token and every earlier one, and every queued preview of an
\* earlier batch, carries a smaller one.
C21_TokensMonotonic ==
  /\ [][/\ scan_token' >= scan_token
        /\ thumb_token' >= thumb_token
        /\ (last'.op = "_scan_folder" \/ scan_token' # scan_token) =>
             /\ last'.op = "_scan_folder"
             /\ scan_token' = scan_token + 1
             /\ TokensOf(scan_threads') = TokensOf(scan_threads) \cup {scan_token'}
        /\ (TokensOf(thumb_threads') \ TokensOf(thumb_threads) # {}
             \/ thumb_token' # thumb_token) =>
             /\ thumb_token' = thumb_token + 1
             /\ TokensOf(thumb_threads') =
                  TokensOf(thumb_threads) \cup {thumb_token'}
             /\ \E t \in thumb_threads' :
                  t.token = thumb_token' /\ t.pos = 0 /\ t.files = image_files'
       ]_vars
  /\ [](/\ \A t \in scan_threads : t.token <= scan_token
        /\ Cardinality(TokensOf(scan_threads)) = Cardinality(scan_threads)
        /\ \A t \in thumb_threads : t.token <= thumb_token
        /\ Cardinality(TokensOf(thumb_threads)) = Cardinality(thumb_threads)
        /\ \A i \in 1..Len(thumb_events) :
             thumb_events[i].token <= thumb_token)

\* the second folder's batch was started while the first folder's batch and
\* one of its previews are still around, both with the earlier token
C21_Witness ==
  /\ scan_token = 2
  /\ thumb_token = 2
  /\ TokensOf(thumb_threads) = {1, 2}
  /\ thumb_events # <<>>
  /\ Head(thumb_events).token = 1

\* C22: a put on a key that is present stores the new value for it, makes it
\* the most recently used entry, keeps the other entries in their order and
\* the number of entries as it was; a get on an absent key returns None and
\* leaves the entries and their order as they were.
C22_PutPresentGetAbsent ==
  [][/\ (last'.op = "put" /\ last'.arg \in Keys(items)) =>
          /\ Len(items') = Len(items)
          /\ items'[Len(items')] =
               [key |-> last'.arg, item |-> last'.calls[1].item]
          /\ DropKey(items', last'.arg) = DropKey(items, last'.arg)
     /\ (last'.op = "get" /\ last'.arg \notin Keys(items)) =>
          /\ ~last'.ok
          /\ items' = items]_vars

\* a full cache of several entries: a get hit a key and the put that
\* followed stored a value for that same key, without any eviction
C22_Witness ==
  /\ last.op = "put"
  /\ last.cur = last.arg
  /\ ~last.ok
  /\ Len(items) = capacity
  /\ Len(items) >= 2
  /\ items[Len(items)] = [key |-> last.arg, item |-> NumItems]

\* the control thread's state with every role tag blanked
EraseRole(s) ==
  [s EXCEPT !.loaders = [i \in 1..Len(@) |-> [@[i] EXCEPT !.role = ""]],
            !.calls = [i \in 1..Len(@) |-> [@[i] EXCEPT !.role = ""]]]

\* C23: the role is carried and never interpreted.  In every reachable state
\* a request for any path is accepted or dropped alike as "main" and as
\* "preload", and the terminal event of any worker, success or failure, is
\* handled alike for both roles: the resulting states differ in nothing but
\* the tag itself.  So a result requested as "preload" for the path that is
\* current on arrival is displayed, or on failure skipped as corrupted.
C23_RoleOpaque ==
  /\ [](/\ \A p \in Paths :
             EraseRole(request_load(Main, p, "main"))
               = EraseRole(request_load(Main, p, "preload"))
        /\ \A t \in Range(loaders), ok \in BOOLEAN :
             on_loaded(Main, t.request_id, t.path, ok, "main")
               = on_loaded(Main, t.request_id, t.path, ok, "preload"))
  /\ [][(/\ last'.op = "_on_loaded"
         /\ last'.arg = CurrentPath
         /\ \E t \in Pending(loaders) :
              t.path = last'.arg /\ t.role = "preload") =>
           IF last'.ok
           THEN /\ display' = [kind |-> "full", path |-> last'.arg]
                /\ last'.arg \in Keys(items')
           ELSE IF Len(image_files) >= 2
                THEN last'.arg \notin Range(image_files')
                ELSE display' = NoDisplay]_vars

\* the file was requested as a preload, became current, and its image
\* arrived and is displayed
C23_Witness ==
  /\ last.op = "_on_loaded"
  /\ last.ok
  /\ last.arg = last.cur
  /\ CurrentPath = last.arg
  /\ \E t \in Range(loaders) :
       t.path = last.arg /\ t.emitted /\ t.role = "preload"
  /\ display = [kind |-> "full", path |-> last.arg]

\* C24: a scan result that carries the current scan token and an empty file
\* list (the folder is empty or cannot be read) leaves image_files,
\* current_index, the preview map and the thumbnail token as they were, and
\* starts no thumbnail thread and no decode request; the folder loaded
\* before is still the one navigation walks.
C24_EmptyScanIgnored ==
  [][(/\ last'.op = "_on_scanned"
      /\ last'.arg = scan_token
      /\ ~last'.ok) =>
       /\ image_files' = image_files
       /\ current_index' = current_index
       /\ thumb_preview' = thumb_preview
       /\ thumb_index' = thumb_index
       /\ thumb_icons' = thumb_icons
       /\ thumb_token' = thumb_token
       /\ thumb_threads' = thumb_threads
       /\ loaders' = loaders
       /\ inflight_loads' = inflight_loads
       /\ request_id' = request_id
       /\ last'.calls = <<>>
       /\ Len(image_files) > 0 =>
            next_image([Main EXCEPT !.image_files = image_files',
                                    !.current_index = current_index',
                                    !.loaders = loaders',
                                    !.inflight_loads = inflight_loads'
                       ]).current_index
              = (current_index + 1) % Len(image_files)]_vars

\* a second folder turned out empty after a first folder of several files was
\* loaded, and that first folder is still listed
C24_Witness ==
  /\ last.op = "_on_scanned"
  /\ ~last.ok
  /\ last.arg = scan_token
  /\ scan_token = 2
  /\ Len(image_files) >= 2
  /\ current_index \in 0..(Len(image_files) - 1)
  /\ thumb_token = 1

\* C25: in every reachable state the paths of the threads held in _loaders
\* are exactly _inflight_loads and no two of these threads have the same
\* path; a path leaves _inflight_loads only when the finished event of its
\* own thread is handled, and by then that thread's loaded event has been
\* handled.
C25_LoadersMatchInflight ==
  /\ [](/\ {t.path : t \in Range(loaders)} = inflight_loads
        /\ \A i, j \in 1..Len(loaders) :
             loaders[i].path = loaders[j].path => i = j)
  /\ [][\A p \in inflight_loads \ inflight_loads' :
          /\ last'.op = "_drop_loader"
          /\ last'.arg = p
          /\ \E t \in Range(loaders) :
               /\ t.path = p
               /\ t.emitted
               /\ t \notin Range(loaders')]_vars

\* the finished event of one thread was handled while another thread, whose
\* result has been delivered too, is still held
C25_Witness ==
  /\ last.op = "_drop_loader"
  /\ last.arg \notin inflight_loads
  /\ \E t \in Range(loaders) : t.emitted /\ t.path \in inflight_loads
  /\ \E t \in Range(loaders) : ~t.emitted

\* the current path and its neighbours that are in range
PreloadTargets ==
  {CurrentPath} \cup
    {image_files[i + 1] :
       i \in {current_index + off : off \in NeighbourOffsets}
                \cap 0..(Len(image_files) - 1)}

\* the keys of the k entries of the cache touched last
NewestKeys(its, k) == {its[i].key : i \in (Len(its) - k + 1)..Len(its)}

\* A file is current, the cache holds at least three entries, every decode
\* still running is for the current path or a neighbour in range, and those
\* of the three that are not being decoded are the newest entries of the
\* cache.
PreloadOnCourse ==
  /\ CurrentPath # NoPath
  /\ capacity >= Cardinality(NeighbourOffsets) + 1
  /\ LET running == {t.path : t \in Pending(loaders)}
         arrived == PreloadTargets \ running
     IN /\ running \subseteq PreloadTargets
        /\ Cardinality(arrived) <= Len(items)
        /\ NewestKeys(items, Cardinality(arrived)) = arrived

\* C26: with a capacity of three or more (the default is 15), a load_current
\* that runs while no decode is in flight leaves the current path and each
\* neighbour in range either the newest entries of the cache or being
\* decoded, and nothing else being decoded; a successful result, a finished
\* thread or a thumbnail, with no navigation and no scan in between, keeps
\* it so, none of the three evicting another; hence once every request has
\* completed the current path and each neighbour in range are in the cache.
C26_PreloadedAfterCompletion ==
  /\ [][(/\ LoadCurrentRan(last'.calls)
         /\ inflight_loads = {}
         /\ capacity >= Cardinality(NeighbourOffsets) + 1)
        => PreloadOnCourse']_vars
  /\ [][(/\ PreloadOnCourse
         /\ last'.op \in {"_on_loaded", "_drop_loader", "thumbnail_run",
                          "thumbnail_end", "_on_thumbnail_ready"}
         /\ (last'.op = "_on_loaded" => last'.ok))
        => /\ PreloadOnCourse'
           /\ PreloadTargets' = PreloadTargets
           /\ PreloadTargets \cap Keys(items) \subseteq Keys(items')]_vars
  /\ []((PreloadOnCourse /\ Pending(loaders) = {})
        => PreloadTargets \subseteq Keys(items))

\* the last of the decodes requested for a file with both neighbours has
\* completed, the three fill a cache of three entries, and a fourth file of
\* the folder was evicted for them
C26_Witness ==
  /\ last.op = "_on_loaded"
  /\ last.ok
  /\ PreloadOnCourse
  /\ Pending(loaders) = {}
  /\ Cardinality(PreloadTargets) = Cardinality(NeighbourOffsets) + 1
  /\ Len(items) = capacity
  /\ Keys(items) = PreloadTargets
  /\ last.arg \in PreloadTargets
  /\ Range(image_files) \ Keys(items) # {}

====
